---- MODULE Spec2Model ----
(***************************************************************************)
(* A model of dns-updater: the reconciliation loop updater::start, the     *)
(* matcher map_domain_args_to_account_domains, and the DigitalOcean        *)
(* records the loop reads and writes.                                      *)
(*                                                                         *)
(* Strings are sequences of one-character strings, so that to_lowercase,   *)
(* ends_with, format! and IpAddr::to_string are computed, not assumed.     *)
(***************************************************************************)
EXTENDS Integers, Sequences, FiniteSets, TLC

VARIABLES
    args,                    \* AppArgs: do_api_key, apply, update_interval, domains
    remote,                  \* the provider's state: account domains, records per domain
    remote0,                 \* the provider's records when start was called
    pc,                      \* the position of start: an await point or "done"
    result,                  \* what start returned, once pc = "done"
    wan_ip,                  \* this cycle's result of query_wan_ip
    account_domains,         \* this cycle's result of list_all_domains
    map,                     \* this cycle's HashMap<&Domain, Vec<&str>>
    unknown_domains,         \* this cycle's unknown list
    domain_records_futures,  \* the domains whose future has not been awaited yet
    domain,                  \* the domain whose records are being processed
    records,                 \* the records fetched for that domain
    arg_idx,                 \* the position in map[domain] of the next requested FQDN
    sleep_secs,              \* the duration of the sleep start is in (pc = "sleep")
    calls,                   \* the provider calls of this cycle, in order
    log,                     \* the per-FQDN log lines of this cycle, in order
    last,                    \* the last earlier cycle that got past Listing: its address,
                             \* whether every call succeeded (kept until the next listing)
    repeat,                  \* whether this cycle runs with the address of that cycle
    api_file,                \* api_urls.txt: whether it exists, and its contents
    api_urls,                \* query_wan_ip: the endpoints load_api_urls returned
    api_idx,                 \* query_wan_ip: the position in api_urls of the next endpoint
    last_error,              \* query_wan_ip: its local last_error
    queried,                 \* the endpoints this lookup has queried, with their answers
    request,                 \* a provider client call: the operation asked for
    response,                \* the response the client got for it
    client_result,           \* what the call returned
    sent                     \* the requests the client has sent for it

vars == <<args, remote, remote0, pc, result, wan_ip, account_domains, map,
          unknown_domains, domain_records_futures, domain, records, arg_idx,
          sleep_secs, calls, log, last, repeat,
          api_file, api_urls, api_idx, last_error, queried,
          request, response, client_result, sent>>

\* The locals of one call of query_wan_ip.
lookup_vars == <<api_urls, api_idx, last_error, queried>>

wan_vars == <<api_file, lookup_vars>>

\* One call of the provider client.
client_vars == <<request, response, client_result, sent>>

----------------------------------------------------------------------------
(* Bounds of the model.                                                    *)

MaxArgs == 2

----------------------------------------------------------------------------
(* Strings.                                                                *)

Range(s) == {s[i] : i \in 1..Len(s)}

SeqsUpTo(S, n) == UNION {[1..k -> S] : k \in 0..n}

\* char::to_lowercase on the letters the model's names are written with.
LowerChar(c) ==
    CASE c = "E" -> "e"
      [] c = "S" -> "s"
      [] c = "H" -> "h"
      [] c = "X" -> "x"
      [] c = "A" -> "a"
      [] c = "B" -> "b"
      [] c = "C" -> "c"
      [] c = "D" -> "d"
      [] c = "F" -> "f"
      [] OTHER -> c

to_lowercase(s) == [i \in 1..Len(s) |-> LowerChar(s[i])]

ends_with(s, t) ==
    /\ Len(t) <= Len(s)
    /\ SubSeq(s, Len(s) - Len(t) + 1, Len(s)) = t

\* format!("{}.{}", a, b)
format_dot(a, b) == a \o <<".">> \o b

RECURSIVE Join(_, _)
Join(parts, sep) ==
    IF Len(parts) = 0 THEN <<>>
    ELSE IF Len(parts) = 1 THEN parts[1]
    ELSE parts[1] \o sep \o Join(Tail(parts), sep)

----------------------------------------------------------------------------
(* IP addresses and IpAddr::to_string.  An address is [v |-> 4, o |-> the  *)
(* four octets] or [v |-> 6, o |-> the eight 16-bit segments].             *)

DigitChars == <<"0", "1", "2", "3", "4", "5", "6", "7", "8", "9",
                "a", "b", "c", "d", "e", "f">>

RECURSIVE Digits(_, _)
Digits(n, base) ==
    IF n < base THEN <<DigitChars[n + 1]>>
    ELSE Digits(n \div base, base) \o <<DigitChars[(n % base) + 1]>>

RECURSIVE ZeroRun(_, _)
ZeroRun(o, i) == IF i > Len(o) \/ o[i] # 0 THEN 0 ELSE 1 + ZeroRun(o, i + 1)

\* Display for Ipv4Addr: the octets in decimal, joined by dots.
\* Display for Ipv6Addr: lowercase hex segments, the first longest run of two
\* or more zero segments written "::" (no address of the model is IPv4-mapped).
to_string(ip) ==
    IF ip.v = 4 THEN Join([i \in 1..4 |-> Digits(ip.o[i], 10)], <<".">>)
    ELSE
        LET hex == [i \in 1..8 |-> Digits(ip.o[i], 16)]
            longest == CHOOSE i \in 1..8 :
                          /\ \A j \in 1..8 : ZeroRun(ip.o, j) <= ZeroRun(ip.o, i)
                          /\ \A j \in 1..(i - 1) : ZeroRun(ip.o, j) < ZeroRun(ip.o, i)
            len == ZeroRun(ip.o, longest)
        IN  IF len > 1
            THEN Join(SubSeq(hex, 1, longest - 1), <<":">>) \o <<":", ":">>
                     \o Join(SubSeq(hex, longest + len, 8), <<":">>)
            ELSE Join(hex, <<":">>)

wan_ip_type_of(ip) == IF ip.v = 4 THEN "A" ELSE "AAAA"

\* Mutant of is_cgnat: the lower end of the block tested with > instead of >=.
is_cgnat_open(ip) ==
    /\ ip.v = 4
    /\ ip.o[1] = 100
    /\ ip.o[2] > 64
    /\ ip.o[2] <= 127

\* updater.rs: the carrier-grade NAT test on an IPv4 address.
is_cgnat(ip) ==
    /\ ip.v = 4
    /\ ip.o[1] = 100
    /\ ip.o[2] >= 64
    /\ ip.o[2] <= 127

----------------------------------------------------------------------------
(* The matcher.  A Domain is modelled by its name, the field the program   *)
(* reads; the HashMap keyed by &Domain is a function on domain names.      *)

\* Mutant of find_domain: the requested FQDN is not lowercased.
find_domain_case_sensitive(domain_arg, domains) ==
    LET hits == {i \in 1..Len(domains) :
                    ends_with(domain_arg, to_lowercase(domains[i]))}
    IN  IF hits = {} THEN 0 ELSE CHOOSE i \in hits : \A j \in hits : i <= j

\* account_domains.iter().find(|domain| domain_arg.to_lowercase()
\*     .ends_with(&domain.name.to_lowercase())): the position of the first
\* such domain, 0 for None.
find_domain(domain_arg, domains) ==
    LET hits == {i \in 1..Len(domains) :
                    ends_with(to_lowercase(domain_arg), to_lowercase(domains[i]))}
    IN  IF hits = {} THEN 0 ELSE CHOOSE i \in hits : \A j \in hits : i <= j

\* Mutant of entry_push: the FQDN is put in front of the domain's group.
entry_push_front(m, d, domain_arg) ==
    [k \in (DOMAIN m) \cup {d} |->
        IF k = d
        THEN <<domain_arg>> \o (IF d \in DOMAIN m THEN m[d] ELSE <<>>)
        ELSE m[k]]

\* map.entry(domain).or_insert(vec![]).push(domain_arg)
entry_push(m, d, domain_arg) ==
    [k \in (DOMAIN m) \cup {d} |->
        IF k = d
        THEN (IF d \in DOMAIN m THEN m[d] ELSE <<>>) \o <<domain_arg>>
        ELSE m[k]]

EmptyMap == [k \in {} |-> <<>>]

RECURSIVE map_loop(_, _, _, _)
map_loop(domain_args, domains, i, acc) ==
    IF i > Len(domain_args) THEN acc
    ELSE
        LET domain_arg == domain_args[i]
            found == find_domain(domain_arg, domains)
        IN  IF found # 0
            THEN map_loop(domain_args, domains, i + 1,
                          [acc EXCEPT !.map = entry_push(acc.map, domains[found], domain_arg)])
            ELSE map_loop(domain_args, domains, i + 1,
                          [acc EXCEPT !.unknown = Append(acc.unknown, domain_arg)])

map_domain_args_to_account_domains(domain_args, domains) ==
    map_loop(domain_args, domains, 1, [map |-> EmptyMap, unknown |-> <<>>])

\* Mutant of find_record: the record type is not compared.
find_record_any_type(recs, domain_name, arg_domain, wan_ip_type) ==
    LET arg_domain_lowercase == to_lowercase(arg_domain)
        hits == {i \in 1..Len(recs) :
                    format_dot(to_lowercase(recs[i].name), domain_name)
                        = arg_domain_lowercase}
    IN  IF hits = {} THEN 0 ELSE CHOOSE i \in hits : \A j \in hits : i <= j

\* records.iter().find(|rec| rec.ty == wan_ip_type
\*     && format!("{}.{}", rec.name.to_lowercase(), &domain.name) == arg_domain_lowercase):
\* the position of the first such record, 0 for None.
find_record(recs, domain_name, arg_domain, wan_ip_type) ==
    LET arg_domain_lowercase == to_lowercase(arg_domain)
        hits == {i \in 1..Len(recs) :
                    /\ recs[i].ty = wan_ip_type
                    /\ format_dot(to_lowercase(recs[i].name), domain_name)
                           = arg_domain_lowercase}
    IN  IF hits = {} THEN 0 ELSE CHOOSE i \in hits : \A j \in hits : i <= j

----------------------------------------------------------------------------
(* The inputs: the command line, the provider's account, the outcomes of   *)
(* the WAN lookup and of the provider calls.                               *)

\* Requested FQDNs: a host of zone e, a host of the nested zone s.e written
\* in upper case, a host of a zone the account does not have.
FqdnChoices == { <<"h", ".", "e">>,
                 <<"H", ".", "S", ".", "E">>,
                 <<"h", ".", "x">> }

\* Account domains: a zone, and a nested zone the provider returns in mixed case.
DomainNames == { <<"e">>, <<"S", ".", "e">> }

\* The provider lists every domain of the account once, in some order.
DomainLists ==
    {ds \in SeqsUpTo(DomainNames, Cardinality(DomainNames)) :
        \A i, j \in 1..Len(ds) : ds[i] = ds[j] => i = j}

WanPublic4 == [v |-> 4, o |-> <<100, 63, 255, 255>>]
WanAbove4  == [v |-> 4, o |-> <<100, 128, 0, 0>>]
WanPublic6 == [v |-> 6, o |-> <<8193, 3512, 0, 0, 0, 0, 0, 1>>]

WanIps == { WanPublic4, WanAbove4, WanPublic6,
            [v |-> 4, o |-> <<10, 64, 0, 1>>],
            [v |-> 4, o |-> <<100, 64, 0, 1>>],
            [v |-> 4, o |-> <<100, 127, 255, 254>>] }

\* wan_ip_query.rs: WanIpError
WanIpErrors == {"Io", "QueryFailed", "UrlParse", "NoApiEndpointsConfigured"}

\* digitalocean.rs: QueryError
QueryErrors == {"RateLimited", "Unauthorized", "NotFound", "ServerError",
                "UnexpectedStatus", "ReqwestError"}

\* The failures the model injects into a record fetch and into an update.
InjectedErrors == {"Unauthorized", "ServerError"}

\* The zones an account domain may hold.  Record data is a string: an address
\* in the form to_string gives it, or in another spelling of the same address.
HostZone ==
    << [ty |-> "A", name |-> <<"h">>, data |-> to_string(WanPublic4), ttl |-> 1800] >>

ZoneChoices(n) ==
    IF n # <<"e">> THEN { <<>>, HostZone }
    ELSE
    { <<>>,
      HostZone,
      << [ty |-> "AAAA", name |-> <<"H">>,
          data |-> <<"2", "0", "0", "1", ":", "D", "B", "8", ":", ":", "1">>, ttl |-> 30],
         [ty |-> "A", name |-> <<"h", ".", "s">>, data |-> to_string(WanPublic4), ttl |-> 30],
         [ty |-> "A", name |-> <<"H">>, data |-> to_string(WanAbove4), ttl |-> 30],
         [ty |-> "A", name |-> <<"h">>, data |-> to_string(WanPublic4), ttl |-> 1800] >> }

DomainNo(name) == IF name = <<"e">> THEN 0 ELSE 1

\* Record ids are provider-assigned and unique over the account.
WithIds(name, zone) ==
    [i \in 1..Len(zone) |->
        [id |-> 10 * DomainNo(name) + i, ty |-> zone[i].ty, name |-> zone[i].name,
         data |-> zone[i].data, ttl |-> zone[i].ttl]]

NoInterval == [some |-> FALSE, v |-> 0]
Interval(n) == [some |-> TRUE, v |-> n]

NoWan == [kind |-> "None"]
WanOk(ip) == [kind |-> "Ok", ip |-> ip]
WanErr(e) == [kind |-> "Err", err |-> e]
NoDomains == [kind |-> "None"]
Running == [kind |-> "Running"]
Returned(r) == [kind |-> r]
Failed(e, why) == [kind |-> "Err", err |-> e, source |-> why]
NoLast == [some |-> FALSE, wan |-> NoWan, clean |-> FALSE]
NoRepeat == [same |-> FALSE, clean |-> FALSE]

NoDomain == <<>>

\* main.rs, AppArgs.do_api_key: a key, and a key with a line break in it.
ApiKeys == { <<"k">>, <<"k", "\n">> }

\* digitalocean.rs:122: format!("Bearer {api_key}")
authorization(api_key) == <<"B", "e", "a", "r", "e", "r", " ">> \o api_key

\* digitalocean.rs:122-123: str::parse::<HeaderValue>() refuses control
\* characters.
header_value_ok(v) == \A i \in 1..Len(v) : v[i] \notin {"\n", "\r"}

\* digitalocean.rs:118-139: DigitalOcean::new, its possible results.
new_client(api_key) ==
    IF header_value_ok(authorization(api_key))
    THEN {"Ok", "ReqwestError"}
    ELSE {"InvalidApiKey"}

\* wan_ip_query.rs:33-34: DEFAULT_APIS, and the file load_api_urls writes
\* when there is none, one URL and a line feed per endpoint.
DEFAULT_APIS == <<"https://api.seeip.org", "https://api64.ipify.org">>

DefaultContents == <<DEFAULT_APIS[1], "\n", DEFAULT_APIS[2], "\n">>

DefaultFile == [exists |-> TRUE, contents |-> DefaultContents]

NoFile == [exists |-> FALSE, contents |-> <<>>]

\* The contents of api_urls.txt: line feeds and the text between them.
FileContents ==
    { <<>>,
      <<"\n", "\n">>,
      DefaultContents,
      <<"https://ip.example", "\n", "\n", DEFAULT_APIS[1]>>,
      <<DEFAULT_APIS[1], "\n", "api64.ipify.org", "\n">>,
      <<"api.seeip.org">> }

ApiFiles == {NoFile} \cup {[exists |-> TRUE, contents |-> c] : c \in FileContents}

\* wan_ip_query.rs:72: contents.split('\n'), the pieces between line feeds
\* (the empty ones included).
RECURSIVE split(_)
split(contents) ==
    IF contents = <<>> THEN <<"">>
    ELSE IF Head(contents) = "\n" THEN <<"">> \o split(Tail(contents))
    ELSE <<Head(contents)>> \o Tail(split(Tail(contents)))

\* wan_ip_query.rs:73: .filter(|url| !url.is_empty())
non_empty(lines) == SelectSeq(lines, LAMBDA l : l # "")

\* wan_ip_query.rs:74: Url::parse on the texts of the model: an absolute URL
\* parses, a host name without a scheme does not.
url_parse_ok(line) == line \in {DEFAULT_APIS[1], DEFAULT_APIS[2], "https://ip.example"}

\* Mutant of parse_lines: the endpoints come out in reverse order.
parse_lines_reversed(contents) ==
    LET lines == non_empty(split(contents)) IN
    IF \E i \in 1..Len(lines) : ~url_parse_ok(lines[i])
    THEN [kind |-> "Err", err |-> "UrlParse"]
    ELSE [kind |-> "Ok", v |-> [i \in 1..Len(lines) |-> lines[Len(lines) + 1 - i]]]

\* wan_ip_query.rs:71-75: the endpoints of a file that was read, or the
\* error of its first line that is no URL.
parse_lines(contents) ==
    LET lines == non_empty(split(contents)) IN
    IF \E i \in 1..Len(lines) : ~url_parse_ok(lines[i])
    THEN [kind |-> "Err", err |-> "UrlParse"]
    ELSE [kind |-> "Ok", v |-> lines]

\* The file system's answers to load_api_urls: everything works, opening or
\* reading or creating the file fails, or writing the created file fails.
FileOutcomes(file) ==
    IF file.exists THEN {"Ok", "Failed"} ELSE {"Ok", "Failed", "WriteFailed"}

\* wan_ip_query.rs:64-96: load_api_urls: its result and the file it leaves.
load_api_urls(file, io) ==
    IF file.exists
    THEN [file |-> file,
          res |-> IF io = "Ok" THEN parse_lines(file.contents)
                  ELSE [kind |-> "Err", err |-> "Io"]]
    ELSE CASE io = "Ok" ->
                [file |-> DefaultFile, res |-> parse_lines(DefaultContents)]
           [] io = "WriteFailed" ->
                [file |-> [exists |-> TRUE, contents |-> <<>>],
                 res |-> [kind |-> "Err", err |-> "Io"]]
           [] OTHER ->
                [file |-> file, res |-> [kind |-> "Err", err |-> "Io"]]

\* What an endpoint sends back: text that is an address, an address followed
\* by a line feed, an address in upper case, a CGNAT address, and a page.
Bodies ==
    { to_string(WanPublic4),
      to_string(WanPublic4) \o <<"\n">>,
      <<"2", "0", "0", "1", ":", "D", "B", "8", ":", ":", "1">>,
      to_string([v |-> 4, o |-> <<100, 64, 0, 1>>]),
      <<"<", "h", ">">> }

\* The answers to reqwest::get: no response, a response whose body cannot
\* be read, or a status and a body.
Responses ==
    {[net |-> "Err", status |-> 0, body |-> <<>>, read |-> FALSE]}
        \cup {[net |-> "Ok", status |-> st, body |-> <<>>, read |-> FALSE] : st \in {200, 503}}
        \cup {[net |-> "Ok", status |-> st, body |-> b, read |-> TRUE] :
                  st \in {200, 503}, b \in Bodies}

\* wan_ip_query.rs:49: text.parse::<IpAddr>(): the canonical text of an
\* address, its hexadecimal digits in either case, and nothing around it.
parses_as_ip(text) == \E ip \in WanIps : to_string(ip) = to_lowercase(text)

parse_ip(text) == CHOOSE ip \in WanIps : to_string(ip) = to_lowercase(text)

\* wan_ip_query.rs:45-56: what query_wan_ip makes of one endpoint's answer.
\* The status of the response is not looked at.
endpoint_result(resp) ==
    IF resp.net = "Err" THEN WanErr("get")
    ELSE IF ~resp.read THEN WanErr("text")
    ELSE IF parses_as_ip(resp.body) THEN WanOk(parse_ip(resp.body))
    ELSE WanErr("parse")

\* digitalocean.rs:142-179: the three calls of the client, the method each
\* uses and the payload each expects of a 200 response.
Operations ==
    { [op |-> "list_all_domains", method |-> "GET", expects |-> "domains"],
      [op |-> "query_domain_records", method |-> "GET", expects |-> "domain_records"],
      [op |-> "update_record", method |-> "PATCH", expects |-> "domain_record"] }

NoRequest == [op |-> "None"]
NoResponse == [status |-> 0]
NoResult == [kind |-> "None"]

\* What a response carries: JSON with the top-level member named (message
\* is the member of ErrorResponse, digitalocean.rs:47-51), JSON without any
\* of them, text that is no JSON, or nothing.
ResponseBodies ==
    {[json |-> TRUE, member |-> m] :
        m \in {"domains", "domain_records", "domain_record", "message", "other"}}
        \cup {[json |-> FALSE, member |-> m] : m \in {"text", "empty"}}

StatusCodes == {200, 201, 204, 302, 400, 401, 403, 404, 422, 429, 500, 502, 503}

ClientResponses == [status : StatusCodes, body : ResponseBodies]

\* Response::json::<T>(): the body is JSON and has the member T requires.
decodes_as(body, member) == body.json /\ body.member = member

\* Mutant of handle_response: the status alone decides, the body of an error
\* response is not decoded.
handle_response_by_status(req, resp) ==
    CASE resp.status = 200 ->
            IF decodes_as(resp.body, req.expects)
            THEN [kind |-> "Ok", code |-> 0]
            ELSE [kind |-> "ReqwestError", code |-> 0]
      [] resp.status = 401 -> [kind |-> "Unauthorized", code |-> 0]
      [] resp.status = 404 -> [kind |-> "NotFound", code |-> 0]
      [] resp.status = 429 -> [kind |-> "RateLimited", code |-> 0]
      [] resp.status = 500 -> [kind |-> "ServerError", code |-> 0]
      [] OTHER -> [kind |-> "UnexpectedStatus", code |-> resp.status]

\* digitalocean.rs:207-232: handle_response.  The body of a 401, 404, 429 or
\* 500 response is decoded as ErrorResponse before the status is looked at
\* again, and a body that does not decode returns the decoding error.
handle_response(req, resp) ==
    CASE resp.status = 200 ->
            IF decodes_as(resp.body, req.expects)
            THEN [kind |-> "Ok", code |-> 0]
            ELSE [kind |-> "ReqwestError", code |-> 0]
      [] resp.status \in {401, 404, 429, 500} ->
            IF ~decodes_as(resp.body, "message")
            THEN [kind |-> "ReqwestError", code |-> 0]
            ELSE CASE resp.status = 401 -> [kind |-> "Unauthorized", code |-> 0]
                   [] resp.status = 404 -> [kind |-> "NotFound", code |-> 0]
                   [] resp.status = 429 -> [kind |-> "RateLimited", code |-> 0]
                   [] OTHER -> [kind |-> "ServerError", code |-> 0]
      [] OTHER -> [kind |-> "UnexpectedStatus", code |-> resp.status]

Init ==
    /\ args \in [do_api_key : ApiKeys,
                 apply : BOOLEAN,
                 update_interval : {NoInterval, Interval(0), Interval(1)},
                 domains : SeqsUpTo(FqdnChoices, MaxArgs) \ {<<>>}]
    /\ \E ds \in DomainLists, zones \in {z \in [DomainNames -> UNION {ZoneChoices(n) : n \in DomainNames}] :
                                      \A n \in DomainNames : z[n] \in ZoneChoices(n)} :
          remote = [domains |-> ds,
                    records |-> [n \in DomainNames |->
                                    IF n \in Range(ds) THEN WithIds(n, zones[n]) ELSE <<>>]]
    /\ remote0 = remote
    /\ pc = "new"
    /\ result = Running
    /\ wan_ip = NoWan
    /\ account_domains = NoDomains
    /\ map = EmptyMap
    /\ unknown_domains = <<>>
    /\ domain_records_futures = {}
    /\ domain = NoDomain
    /\ records = <<>>
    /\ arg_idx = 0
    /\ sleep_secs = 0
    /\ calls = <<>>
    /\ log = <<>>
    /\ last = NoLast
    /\ repeat = NoRepeat
    /\ api_file = DefaultFile
    /\ api_urls = <<>>
    /\ api_idx = 0
    /\ last_error = "None"
    /\ queried = <<>>
    /\ request = NoRequest
    /\ response = NoResponse
    /\ client_result = NoResult
    /\ sent = 0

----------------------------------------------------------------------------
(* The provider, as the loop sees it.                                      *)

Call(op, d, id, ty, data, res) ==
    [op |-> op, domain |-> d, id |-> id, ty |-> ty, data |-> data, res |-> res]

Line(fqdn, d, outcome, id, current, err) ==
    [fqdn |-> fqdn, domain |-> d, outcome |-> outcome, id |-> id,
     current |-> current, err |-> err]

\* PATCH /v2/domains/{domain_name}/records/{record_id} with {type, data}: the
\* record of that id gets the type and the data sent, and nothing else changes.
patch_record(recs, record_id, new_type, new_value) ==
    [i \in 1..Len(recs) |->
        IF recs[i].id = record_id
        THEN [recs[i] EXCEPT !.ty = new_type, !.data = new_value]
        ELSE recs[i]]

\* The outcomes of one update_record call: the response, and whether the
\* provider applied the change.
UpdateOutcomes ==
    {[res |-> "Ok", applied |-> TRUE]}
        \cup {[res |-> e, applied |-> FALSE] : e \in InjectedErrors}

----------------------------------------------------------------------------
(* updater::start, one action per await point.                             *)

cycle_vars == <<account_domains, map, unknown_domains, domain_records_futures,
                domain, records, arg_idx>>

\* Mutant of retry_wan_error: retried in every mode.
retry_wan_error_always(a) == TRUE

\* Line 26: a failed WAN lookup is retried only with --apply.
retry_wan_error(a) == a.apply

\* Mutant of retry_list_error: a refused key is retried like any other failure.
retry_list_error_any(a, err) == a.apply

\* Lines 59-80: a failed listing is retried only with --apply, and never when
\* the key was refused.
retry_list_error(a, err) == a.apply /\ err # "TestFailedDOKeyValidation"

\* Lines 13-14: the client is built before the loop; a failure is returned
\* as AppError::OtherError (main.rs:20-24).
NewClient ==
    /\ pc = "new"
    /\ \E r \in new_client(args.do_api_key) :
          IF r = "Ok"
          THEN pc' = "query_wan_ip" /\ result' = result
          ELSE pc' = "done" /\ result' = Failed("OtherError", r)
    /\ UNCHANGED <<args, remote, remote0, wan_ip, cycle_vars, sleep_secs, calls, log,
                   last, repeat, wan_vars, client_vars>>

\* Lines 23-54: what start does with the result of query_wan_ip().await.
WanIpReturned(r) ==
    /\ wan_ip' = r
    /\ IF r.kind = "Err"
       THEN IF retry_wan_error(args)
            THEN /\ pc' = "sleep"
                 /\ sleep_secs' = 10
                 /\ result' = result
            ELSE /\ pc' = "done"
                 /\ result' = Failed("TestFailedToQueryWanIp", r.err)
                 /\ sleep_secs' = sleep_secs
       ELSE IF is_cgnat(r.ip)
            THEN /\ pc' = "done"
                 /\ result' = Failed("CgNatWanIp", "wan_ip")
                 /\ sleep_secs' = sleep_secs
            ELSE /\ pc' = "list_all_domains"
                 /\ UNCHANGED <<result, sleep_secs>>

\* Lines 17-54: the WAN lookup as one await point of start: query_wan_ip
\* returns any address or any of its errors.
QueryWanIp ==
    /\ pc = "query_wan_ip"
    /\ \E r \in {WanOk(ip) : ip \in WanIps} \cup {WanErr(e) : e \in WanIpErrors} :
          WanIpReturned(r)
    /\ UNCHANGED <<args, remote, remote0, cycle_vars, calls, log, last, repeat, wan_vars, client_vars>>

\* wan_ip_query.rs:36-42 and 64-96: query_wan_ip loads its endpoints; when
\* that fails or gives none it returns, and start goes on with the error.
LoadApiUrls ==
    /\ pc = "query_wan_ip"
    /\ \E io \in FileOutcomes(api_file) :
          LET l == load_api_urls(api_file, io) IN
          /\ api_file' = l.file
          /\ IF l.res.kind = "Err"
             THEN /\ WanIpReturned(WanErr(l.res.err))
                  /\ UNCHANGED lookup_vars
             ELSE IF l.res.v = <<>>
             THEN /\ WanIpReturned(WanErr("NoApiEndpointsConfigured"))
                  /\ UNCHANGED lookup_vars
             ELSE /\ api_urls' = l.res.v
                  /\ api_idx' = 1
                  /\ pc' = "get"
                  /\ UNCHANGED <<wan_ip, result, sleep_secs, last_error, queried>>
    /\ UNCHANGED <<args, remote, remote0, cycle_vars, calls, log, last, repeat,
                   client_vars>>

\* wan_ip_query.rs:44-61: the next endpoint is asked; an address ends the
\* lookup, anything else is kept as last_error and the loop goes on, and
\* after the last endpoint the lookup fails with QueryFailed.
QueryEndpoint ==
    /\ pc = "get"
    /\ \E resp \in Responses :
          LET r == endpoint_result(resp) IN
          /\ queried' = Append(queried, [url |-> api_urls[api_idx], resp |-> resp])
          /\ IF r.kind = "Ok"
             THEN /\ WanIpReturned(r)
                  /\ UNCHANGED <<api_idx, last_error>>
             ELSE /\ last_error' = r.err
                  /\ IF api_idx = Len(api_urls)
                     THEN /\ WanIpReturned(WanErr("QueryFailed"))
                          /\ api_idx' = api_idx
                     ELSE /\ api_idx' = api_idx + 1
                          /\ UNCHANGED <<pc, wan_ip, result, sleep_secs>>
    /\ UNCHANGED <<args, remote, remote0, cycle_vars, calls, log, last, repeat,
                   api_file, api_urls, client_vars>>

\* Mutant of list_error: a refused key is an error like any other.
list_error_other(res) == Failed("OtherError", res)

\* Lines 59-62: the map_err on the result of list_all_domains.
list_error(res) ==
    IF res = "Unauthorized"
    THEN Failed("TestFailedDOKeyValidation", res)
    ELSE Failed("OtherError", res)

\* Mutant of records_futures: a domain with a single requested FQDN gets no
\* future.
records_futures_of_larger_groups(m) == {d \in DOMAIN m : Len(m[d]) > 1}

\* Lines 88-92: one future per key of the map.
records_futures(m) == DOMAIN m

\* Lines 56-92: list_all_domains, the matcher, and the record futures (a
\* future sends nothing until it is awaited).
ListAllDomains ==
    /\ pc = "list_all_domains"
    /\ \E res \in {"Ok"} \cup QueryErrors :
          /\ calls' = Append(calls, Call("list_all_domains", NoDomain, 0, "", <<>>, res))
          /\ IF res = "Ok"
             THEN LET m == map_domain_args_to_account_domains(args.domains, remote.domains)
                  IN  /\ account_domains' = [kind |-> "Ok", v |-> remote.domains]
                      /\ map' = m.map
                      /\ unknown_domains' = m.unknown
                      /\ domain_records_futures' = records_futures(m.map)
                      /\ pc' = "await_records"
                      /\ repeat' = IF last.some /\ last.wan = wan_ip.ip
                                   THEN [same |-> TRUE, clean |-> last.clean]
                                   ELSE NoRepeat
                      /\ last' = NoLast
                      /\ UNCHANGED <<result, sleep_secs>>
             ELSE LET err == list_error(res)
                  IN  /\ account_domains' = err
                      /\ UNCHANGED <<map, unknown_domains, domain_records_futures, last, repeat>>
                      /\ IF retry_list_error(args, err.err)
                         THEN /\ pc' = "sleep"
                              /\ sleep_secs' = 10
                              /\ result' = result
                         ELSE /\ pc' = "done"
                              /\ result' = err
                              /\ sleep_secs' = sleep_secs
    /\ UNCHANGED <<args, remote, remote0, wan_ip, domain, records, arg_idx, log, wan_vars, client_vars>>

\* Mutant of fetch_failed_lines: only the first FQDN of the domain is logged.
fetch_failed_lines_first(d, fqdns, err) ==
    [i \in 1..(IF fqdns = <<>> THEN 0 ELSE 1) |->
        Line(fqdns[i], d, "fetch_failed", 0, <<>>, err)]

\* Lines 170-177: a failed record fetch is logged for each FQDN requested of
\* that domain, and nothing else is done about it.
fetch_failed_lines(d, fqdns, err) ==
    [i \in 1..Len(fqdns) |-> Line(fqdns[i], d, "fetch_failed", 0, <<>>, err)]

\* Lines 94-96 and 170-177: the next future of the HashMap, in whatever order
\* it iterates, is awaited: the request is sent and answered.
AwaitRecords ==
    /\ pc = "await_records"
    /\ \E d \in domain_records_futures, res \in {"Ok"} \cup InjectedErrors :
          /\ domain_records_futures' = domain_records_futures \ {d}
          /\ calls' = Append(calls, Call("query_domain_records", d, 0, "", <<>>, res))
          /\ IF res = "Ok"
             THEN /\ domain' = d
                  /\ records' = remote.records[d]
                  /\ arg_idx' = 1
                  /\ pc' = "process"
                  /\ log' = log
             ELSE /\ log' = log \o fetch_failed_lines(d, map[d], res)
                  /\ UNCHANGED <<domain, records, arg_idx, pc>>
    /\ UNCHANGED <<args, remote, remote0, result, wan_ip, account_domains, map,
                   unknown_domains, sleep_secs, last, repeat, wan_vars, client_vars>>

\* Mutant of reports_only: the apply flag is not consulted.
reports_only_never(a) == FALSE

\* Line 110: a found record is only reported, never written, without --apply.
reports_only(a) == ~a.apply

\* Mutant of up_to_date: the record data is compared without regard to case.
up_to_date_ignoring_case(ip, record) == to_string(ip) = to_lowercase(record.data)

\* Lines 117 and 125: wan_ip.to_string() == record.data
up_to_date(ip, record) == to_string(ip) = record.data

\* Mutant of update_request: the record's own data is sent back.
update_request_stale(d, record, ip) ==
    [domain |-> d, id |-> record.id, ty |-> record.ty, data |-> record.data]

\* Lines 133-138: the arguments of the update_record call for a found record.
update_request(d, record, ip) ==
    [domain |-> d, id |-> record.id, ty |-> record.ty, data |-> to_string(ip)]

\* Lines 97-168: one requested FQDN of the domain whose records were fetched.
ProcessArg ==
    /\ pc = "process"
    /\ LET arg_domain == map[domain][arg_idx]
           found == find_record(records, domain, arg_domain, wan_ip_type_of(wan_ip.ip))
           next_pc == IF arg_idx = Len(map[domain]) THEN "await_records" ELSE "process"
       IN  /\ arg_idx' = arg_idx + 1
           /\ pc' = next_pc
           /\ IF found = 0
              THEN /\ log' = Append(log, Line(arg_domain, domain, "missing", 0, <<>>, ""))
                   /\ UNCHANGED <<remote, calls>>
              ELSE LET record == records[found] IN
                   IF reports_only(args)
                   THEN /\ log' = Append(log,
                               Line(arg_domain, domain,
                                    IF up_to_date(wan_ip.ip, record)
                                    THEN "planned_up_to_date" ELSE "planned",
                                    record.id, record.data, ""))
                        /\ UNCHANGED <<remote, calls>>
                   ELSE IF up_to_date(wan_ip.ip, record)
                   THEN /\ log' = Append(log,
                               Line(arg_domain, domain, "up_to_date", record.id, record.data, ""))
                        /\ UNCHANGED <<remote, calls>>
                   ELSE LET req == update_request(domain, record, wan_ip.ip) IN
                        \E out \in UpdateOutcomes :
                           /\ calls' = Append(calls,
                                  Call("update_record", req.domain, req.id, req.ty, req.data, out.res))
                           /\ remote' = IF out.applied
                                        THEN [remote EXCEPT !.records[req.domain] =
                                                 patch_record(@, req.id, req.ty, req.data)]
                                        ELSE remote
                           /\ log' = Append(log,
                                  Line(arg_domain, domain,
                                       IF out.res = "Ok" THEN "updated" ELSE "update_failed",
                                       record.id, record.data,
                                       IF out.res = "Ok" THEN "" ELSE out.res))
    /\ UNCHANGED <<args, remote0, result, wan_ip, account_domains, map, unknown_domains,
                   domain_records_futures, domain, records, sleep_secs, last, repeat,
                   wan_vars, client_vars>>

\* Mutant of wait_duration: the interval is taken for seconds.
wait_duration_as_seconds(interval) == interval

\* Line 195: Duration::from_secs(interval as u64 * 60), in seconds.
wait_duration(interval) == interval * 60

\* Mutant of repeats: a zero interval repeats like any other.
repeats_on_zero(a) == a.apply /\ a.update_interval.some

\* Lines 189-206: whether start sleeps and runs another cycle.
repeats(a) == a.apply /\ a.update_interval.some /\ a.update_interval.v # 0

\* Mutant of loop_result: a cycle with a failed line makes start fail.
loop_result_strict(lines) ==
    IF \E i \in 1..Len(lines) : lines[i].outcome \in {"fetch_failed", "update_failed"}
    THEN Failed("OtherError", "cycle")
    ELSE Returned("Ok")

\* Line 209: after the loop start returns Ok(()), whatever the cycle logged.
loop_result(lines) == Returned("Ok")

\* Lines 181-206: every future was awaited: the unknown FQDNs are logged and
\* the loop breaks or sleeps for the interval.
FinishCycle ==
    /\ pc = "await_records"
    /\ domain_records_futures = {}
    /\ log' = log \o [i \in 1..Len(unknown_domains) |->
                         Line(unknown_domains[i], NoDomain, "unknown", 0, <<>>, "")]
    /\ IF repeats(args)
       THEN /\ pc' = "sleep"
            /\ sleep_secs' = wait_duration(args.update_interval.v)
            /\ result' = result
       ELSE /\ pc' = "done"
            /\ result' = loop_result(log')
            /\ sleep_secs' = sleep_secs
    /\ UNCHANGED <<args, remote, remote0, wan_ip, cycle_vars, calls, last, repeat, wan_vars, client_vars>>

\* Lines 30-31, 74-75, 200 and 16: the sleep ends and the loop starts over.
Wake ==
    /\ pc = "sleep"
    /\ pc' = "query_wan_ip"
    /\ wan_ip' = NoWan
    /\ account_domains' = NoDomains
    /\ map' = EmptyMap
    /\ unknown_domains' = <<>>
    /\ domain_records_futures' = {}
    /\ domain' = NoDomain
    /\ records' = <<>>
    /\ arg_idx' = 0
    /\ sleep_secs' = 0
    /\ calls' = <<>>
    /\ log' = <<>>
    /\ last' = IF account_domains.kind = "Ok"
               THEN [some |-> TRUE, wan |-> wan_ip.ip,
                     clean |-> \A i \in 1..Len(calls) : calls[i].res = "Ok"]
               ELSE last
    /\ repeat' = NoRepeat
    /\ api_urls' = <<>>
    /\ api_idx' = 0
    /\ last_error' = "None"
    /\ queried' = <<>>
    /\ UNCHANGED <<args, remote, remote0, result, api_file, client_vars>>

Next ==
    \/ NewClient
    \/ QueryWanIp
    \/ ListAllDomains
    \/ AwaitRecords
    \/ ProcessArg
    \/ FinishCycle
    \/ Wake

Spec == Init /\ [][Next]_vars

----------------------------------------------------------------------------
(* start up to the end of the WAN lookup, with query_wan_ip step by step:  *)
(* every endpoint file, every answer of the file system and the endpoints. *)

InitWan ==
    /\ args \in [do_api_key : {<<"k">>},
                 apply : BOOLEAN,
                 update_interval : {NoInterval, Interval(1)},
                 domains : {<< <<"h", ".", "e">> >>}]
    /\ remote = [domains |-> <<>>, records |-> [n \in DomainNames |-> <<>>]]
    /\ remote0 = remote
    /\ pc = "query_wan_ip"
    /\ result = Running
    /\ wan_ip = NoWan
    /\ account_domains = NoDomains
    /\ map = EmptyMap
    /\ unknown_domains = <<>>
    /\ domain_records_futures = {}
    /\ domain = NoDomain
    /\ records = <<>>
    /\ arg_idx = 0
    /\ sleep_secs = 0
    /\ calls = <<>>
    /\ log = <<>>
    /\ last = NoLast
    /\ repeat = NoRepeat
    /\ api_file \in ApiFiles
    /\ api_urls = <<>>
    /\ api_idx = 0
    /\ last_error = "None"
    /\ queried = <<>>
    /\ request = NoRequest
    /\ response = NoResponse
    /\ client_result = NoResult
    /\ sent = 0

\* digitalocean.rs:181-205: make_request and make_request_with_data build
\* the request and send it once; a send that fails returns the error.
SendRequest ==
    /\ pc = "send"
    /\ sent' = sent + 1
    /\ \/ /\ client_result' = [kind |-> "ReqwestError", code |-> 0]
          /\ pc' = "returned"
          /\ response' = response
       \/ /\ response' \in ClientResponses
          /\ pc' = "handle_response"
          /\ client_result' = client_result
    /\ UNCHANGED <<args, remote, remote0, result, wan_ip, cycle_vars, sleep_secs, calls,
                   log, last, repeat, wan_vars, request>>

\* digitalocean.rs:191, 204 and 207-232: the response is classified and the
\* call returns.
HandleResponse ==
    /\ pc = "handle_response"
    /\ client_result' = handle_response(request, response)
    /\ pc' = "returned"
    /\ UNCHANGED <<args, remote, remote0, result, wan_ip, cycle_vars, sleep_secs, calls,
                   log, last, repeat, wan_vars, request, response, sent>>

NextWan ==
    \/ LoadApiUrls
    \/ QueryEndpoint
    \/ Wake

SpecWan == InitWan /\ [][NextWan]_vars

----------------------------------------------------------------------------
(* One call of the provider client, for every operation and every response. *)

InitClient ==
    /\ args = [do_api_key |-> <<"k">>, apply |-> FALSE, update_interval |-> NoInterval,
               domains |-> << <<"h", ".", "e">> >>]
    /\ remote = [domains |-> <<>>, records |-> [n \in DomainNames |-> <<>>]]
    /\ remote0 = remote
    /\ pc = "send"
    /\ result = Running
    /\ wan_ip = NoWan
    /\ account_domains = NoDomains
    /\ map = EmptyMap
    /\ unknown_domains = <<>>
    /\ domain_records_futures = {}
    /\ domain = NoDomain
    /\ records = <<>>
    /\ arg_idx = 0
    /\ sleep_secs = 0
    /\ calls = <<>>
    /\ log = <<>>
    /\ last = NoLast
    /\ repeat = NoRepeat
    /\ api_file = DefaultFile
    /\ api_urls = <<>>
    /\ api_idx = 0
    /\ last_error = "None"
    /\ queried = <<>>
    /\ request \in Operations
    /\ response = NoResponse
    /\ client_result = NoResult
    /\ sent = 0

NextClient ==
    \/ SendRequest
    \/ HandleResponse

SpecClient == InitClient /\ [][NextClient]_vars

----------------------------------------------------------------------------
(* What the claims speak of.                                               *)

UpdateCalls == SelectSeq(calls, LAMBDA c : c.op = "update_record")

Writes(l) == l.outcome \in {"updated", "update_failed"}

WrittenLines == SelectSeq(log, Writes)

\* The FQDNs of this cycle's log for which the loop found a record.
FoundLines == SelectSeq(log, LAMBDA l : l.id # 0)

Has(lines, outcome) == \E i \in 1..Len(lines) : lines[i].outcome = outcome

\* Case-insensitive suffix, as the specification words it.
IsSuffixOf(name, fqdn) == ends_with(to_lowercase(fqdn), to_lowercase(name))

Occurrences(seq, x) == Cardinality({i \in 1..Len(seq) : seq[i] = x})

Correlated == account_domains.kind = "Ok"

----------------------------------------------------------------------------
\* C1: without --apply no update_record call is ever issued, whatever the
\* address, the account, the records and the failures: the provider's records
\* stay what they were when start was called.
C1_DryRunNeverWrites ==
    ~args.apply => (UpdateCalls = <<>> /\ remote = remote0)

\* C1 witness: a dry run ended Ok having found a record whose data differs
\* from the address.
C1_Witness ==
    /\ ~args.apply
    /\ pc = "done"
    /\ result.kind = "Ok"
    /\ Has(log, "planned")

\* C2: with --apply, a found record is written if and only if the data
\* fetched for it differs from the string of the resolved address; when they are
\* equal the FQDN is reported up to date and no call is made.
C2_UpdateIffDiffers ==
    args.apply =>
        /\ \A i \in 1..Len(FoundLines) :
              LET l == FoundLines[i] IN
              /\ Writes(l) <=> l.current # to_string(wan_ip.ip)
              /\ l.outcome = "up_to_date" <=> l.current = to_string(wan_ip.ip)
        /\ Len(UpdateCalls) = Len(WrittenLines)
        /\ \A i \in 1..Len(UpdateCalls) :
              /\ UpdateCalls[i].id = WrittenLines[i].id
              /\ UpdateCalls[i].domain = WrittenLines[i].domain

\* C2 witness: one cycle wrote one found record and skipped another.
C2_Witness ==
    /\ args.apply
    /\ Has(log, "updated")
    /\ Has(log, "up_to_date")

C4_LongestSuffixChosen ==
    Correlated =>
        \A d \in DOMAIN map : \A i \in 1..Len(map[d]) :
            \A k \in 1..Len(account_domains.v) :
                IsSuffixOf(account_domains.v[k], map[d][i])
                    => Len(account_domains.v[k]) <= Len(d)

\* C5: the matcher partitions the requested FQDNs: every occurrence is in one
\* account domain's group or in the unknown list, and never in both or twice; an
\* FQDN is unknown if and only if no account domain name is a case-insensitive
\* suffix of it.
C5_MatcherPartitions ==
    Correlated =>
        /\ DOMAIN map \subseteq Range(account_domains.v)
        /\ \A f \in Range(args.domains) :
              LET groups == {d \in DOMAIN map : f \in Range(map[d])}
                  matches == \E k \in 1..Len(account_domains.v) :
                                 IsSuffixOf(account_domains.v[k], f)
              IN  /\ (f \in Range(unknown_domains)) <=> ~matches
                  /\ matches => Cardinality(groups) = 1
                  /\ ~matches => groups = {}
                  /\ \A d \in groups :
                        /\ IsSuffixOf(d, f)
                        /\ Occurrences(map[d], f) = Occurrences(args.domains, f)
                  /\ ~matches => Occurrences(unknown_domains, f) = Occurrences(args.domains, f)
        /\ \A d \in DOMAIN map : Range(map[d]) \subseteq Range(args.domains)
        /\ Range(unknown_domains) \subseteq Range(args.domains)

\* C5 witness: one requested FQDN, written in upper case, is grouped under a
\* domain and another is unknown.
C5_Witness ==
    /\ Correlated
    /\ unknown_domains # <<>>
    /\ \E d \in DOMAIN map : \E i \in 1..Len(map[d]) :
          to_lowercase(map[d][i]) # map[d][i]

\* The record the specification targets: the first of the fetched records of
\* the address type whose lowercase name, a dot and the lowercase domain name
\* make the lowercase FQDN; 0 when there is none.
SpecTarget(recs, d, fqdn, ty) ==
    LET hits == {i \in 1..Len(recs) :
                    /\ recs[i].ty = ty
                    /\ format_dot(to_lowercase(recs[i].name), to_lowercase(d))
                           = to_lowercase(fqdn)}
    IN  IF hits = {} THEN 0 ELSE CHOOSE i \in hits : \A j \in hits : i <= j

\* C6 as claimed: whatever the letter case of the domain name, each FQDN of the
\* domain being processed is logged with the specification's target record, and
\* as missing exactly when there is no such record.
C6_TargetIsFirstMatch ==
    pc \in {"process", "await_records", "sleep", "done"} /\ domain # NoDomain =>
        \A i \in 1..Len(log) :
            (log[i].domain = domain /\ log[i].outcome # "fetch_failed") =>
                LET t == SpecTarget(records, domain, log[i].fqdn,
                                    wan_ip_type_of(wan_ip.ip))
                IN  /\ (log[i].outcome = "missing") <=> (t = 0)
                    /\ t # 0 => log[i].id = records[t].id

\* What a record of an address type holds for each address that can be
\* resolved: its string, under the type of the address.
AddressRecords == {[data |-> to_string(ip), ty |-> wan_ip_type_of(ip)] : ip \in WanIps}

\* C7: every update_record call goes to the domain the FQDN was matched to, for
\* a record of that domain whose type is the type of the address, and sends that
\* type and the string of the address; no update changes a record's type, name
\* or ttl, and data changes only in records of an address type that was resolved.
C7_WritesOnlyAddressRecords ==
    /\ \A i \in 1..Len(UpdateCalls) :
          LET c == UpdateCalls[i]
              l == WrittenLines[i]
          IN  /\ c.domain \in DOMAIN map
              /\ l.fqdn \in Range(map[c.domain])
              /\ c.ty = wan_ip_type_of(wan_ip.ip)
              /\ c.data = to_string(wan_ip.ip)
              /\ \E j \in 1..Len(remote0.records[c.domain]) :
                    /\ remote0.records[c.domain][j].id = c.id
                    /\ remote0.records[c.domain][j].ty = c.ty
    /\ \A n \in DomainNames :
          /\ Len(remote.records[n]) = Len(remote0.records[n])
          /\ \A j \in 1..Len(remote.records[n]) :
                LET now == remote.records[n][j]
                    was == remote0.records[n][j]
                IN  /\ now.id = was.id
                    /\ now.ty = was.ty
                    /\ now.name = was.name
                    /\ now.ttl = was.ttl
                    /\ now.data # was.data =>
                          [data |-> now.data, ty |-> now.ty] \in AddressRecords

\* C7 witness: a record was written in a zone that also holds a record of the
\* same name and another type.
C7_Witness ==
    \E i \in 1..Len(UpdateCalls) :
        LET c == UpdateCalls[i] IN
        /\ c.res = "Ok"
        /\ \E j, k \in 1..Len(remote.records[c.domain]) :
              /\ remote.records[c.domain][j].id = c.id
              /\ remote.records[c.domain][j].data = c.data
              /\ remote.records[c.domain][k].ty # c.ty
              /\ to_lowercase(remote.records[c.domain][k].name)
                     = to_lowercase(remote.records[c.domain][j].name)

\* The shared address block 100.64.0.0/10, as the specification words it.
InCgnatBlock(ip) == ip.v = 4 /\ ip.o[1] = 100 /\ ip.o[2] \in 64..127

CgNatError == Failed("CgNatWanIp", "wan_ip")

\* C8: with or without --apply, start returns the CGNAT error exactly when
\* the resolved address is IPv4 with first octet 100 and second octet in
\* 64..127 (100.63.255.255 and 100.128.0.0 are not); start has then ended
\* without a provider call in that cycle and without sleeping.
C8_CgnatIsFatal ==
    /\ wan_ip.kind = "Ok" =>
          /\ (result = CgNatError) <=> InCgnatBlock(wan_ip.ip)
          /\ wan_ip.ip \in {WanPublic4, WanAbove4} => result # CgNatError
    /\ result = CgNatError =>
          /\ wan_ip.kind = "Ok"
          /\ pc = "done"
          /\ calls = <<>>
          /\ sleep_secs = 0

\* C8 witness: an applying run ended with the CGNAT error in a cycle after
\* one that got past Listing.
C8_Witness ==
    /\ result = CgNatError
    /\ args.apply
    /\ last.some

\* C9: a WAN lookup that fails is, with --apply, never returned: start sleeps
\* 10 seconds and then starts the cycle over with a new lookup, however often
\* that happens; without --apply start returns the error at once, without a
\* sleep, a retry or a provider call.
C9_WanErrorRetriedOnlyWhenApplying ==
    /\ [](/\ wan_ip.kind = "Err" =>
                /\ calls = <<>>
                /\ IF args.apply
                   THEN pc = "sleep" /\ sleep_secs = 10 /\ result = Running
                   ELSE /\ pc = "done"
                        /\ sleep_secs = 0
                        /\ result = Failed("TestFailedToQueryWanIp", wan_ip.err)
          /\ args.apply => ~(result.kind = "Err" /\ result.err = "TestFailedToQueryWanIp")
          /\ ~args.apply => pc # "sleep")
    /\ [][(pc = "sleep" /\ wan_ip.kind = "Err") =>
             (pc' = "query_wan_ip" /\ wan_ip' = NoWan /\ calls' = <<>>)]_vars

\* C9 witness: an applying run sleeps 10 seconds after a failed lookup.
C9_Witness ==
    /\ args.apply
    /\ pc = "sleep"
    /\ wan_ip.kind = "Err"
    /\ sleep_secs = 10

\* C10: a failed listing: Unauthorized ends start with the credential error
\* with or without --apply; any other failure is returned at once without
\* --apply and, with --apply, is followed by a 10 second sleep and a new cycle
\* that begins with a new WAN lookup, the listing having been called once.
C10_ListErrorPolicy ==
    /\ [](account_domains.kind = "Err" =>
             /\ Len(calls) = 1
             /\ calls[1].op = "list_all_domains"
             /\ IF calls[1].res = "Unauthorized"
                THEN /\ pc = "done"
                     /\ result = Failed("TestFailedDOKeyValidation", "Unauthorized")
                     /\ sleep_secs = 0
                ELSE IF args.apply
                THEN pc = "sleep" /\ sleep_secs = 10 /\ result = Running
                ELSE /\ pc = "done"
                     /\ result = Failed("OtherError", calls[1].res)
                     /\ sleep_secs = 0)
    /\ [][(pc = "sleep" /\ account_domains.kind = "Err") =>
             (pc' = "query_wan_ip" /\ wan_ip' = NoWan /\ calls' = <<>>)]_vars

\* C10 witness: an applying run sleeps after a listing that failed with
\* something other than Unauthorized.
C10_Witness ==
    /\ args.apply
    /\ pc = "sleep"
    /\ account_domains.kind = "Err"
    /\ sleep_secs = 10

----------------------------------------------------------------------------
\* The provider calls of this cycle that were answered Unauthorized.
Refused == SelectSeq(calls, LAMBDA c : c.res = "Unauthorized")

\* C11 as claimed: an Unauthorized answer to any provider call of the loop
\* (list_all_domains, query_domain_records, update_record) ends start with an
\* error, with or without --apply; it is never only logged.
C11_UnauthorizedIsFatal ==
    Refused # <<>> => (pc = "done" /\ result.kind = "Err")

\* C11 amended: Unauthorized from list_all_domains ends start with the
\* credential error, with or without --apply; Unauthorized from
\* query_domain_records or update_record is logged for the FQDNs it concerns
\* and start does not end with an error in that cycle.
C11_UnauthorizedIsFatalOnListing ==
    \A i \in 1..Len(calls) :
        calls[i].res = "Unauthorized" =>
            IF calls[i].op = "list_all_domains"
            THEN /\ pc = "done"
                 /\ result = Failed("TestFailedDOKeyValidation", "Unauthorized")
            ELSE /\ result.kind # "Err"
                 /\ \E j \in 1..Len(log) :
                       /\ log[j].domain = calls[i].domain
                       /\ log[j].err = "Unauthorized"
                       /\ log[j].outcome =
                             (IF calls[i].op = "update_record"
                              THEN "update_failed" ELSE "fetch_failed")

\* C11 witness: a run ended Ok after a cycle in which a record fetch and an
\* update were both answered Unauthorized.
C11_Witness ==
    /\ pc = "done"
    /\ result = Returned("Ok")
    /\ \E i, j \in 1..Len(Refused) :
          /\ Refused[i].op = "query_domain_records"
          /\ Refused[j].op = "update_record"

----------------------------------------------------------------------------
\* The cycle got past Listing and went through every matched domain and the
\* unknown list.
CycleComplete == Correlated /\ pc \in {"sleep", "done"}

RECURSIVE SumOver(_, _)
SumOver(S, f) ==
    IF S = {} THEN 0
    ELSE LET x == CHOOSE y \in S : TRUE IN f[x] + SumOver(S \ {x}, f)

\* The occurrences of an FQDN that this cycle has still to come to: in the
\* groups of the domains not yet awaited, in the rest of the group being
\* processed, and in the unknown list until it is logged.
Pending(f) ==
    SumOver(domain_records_futures,
            [d \in domain_records_futures |-> Occurrences(map[d], f)])
    + (IF pc = "process"
       THEN Occurrences(SubSeq(map[domain], arg_idx, Len(map[domain])), f)
       ELSE 0)
    + (IF CycleComplete THEN 0 ELSE Occurrences(unknown_domains, f))

Logged(f) == Cardinality({i \in 1..Len(log) : log[i].fqdn = f})

Outcomes == {"up_to_date", "updated", "update_failed", "missing", "fetch_failed",
             "unknown", "planned", "planned_up_to_date"}

\* C12: in a cycle that got past Listing, every occurrence of a requested
\* FQDN is either logged with one outcome or still to come, whatever fetches
\* and updates failed before it; when the cycle is complete every requested
\* FQDN has exactly one outcome.
C12_EveryFqdnGetsOneOutcome ==
    Correlated =>
        /\ \A f \in Range(args.domains) :
              Logged(f) + Pending(f) = Occurrences(args.domains, f)
        /\ \A i \in 1..Len(log) :
              log[i].fqdn \in Range(args.domains) /\ log[i].outcome \in Outcomes
        /\ CycleComplete => Len(log) = Len(args.domains)

\* C12 witness: a complete cycle in which one domain's record fetch failed
\* and an FQDN of another domain was then written.
C12_Witness ==
    /\ CycleComplete
    /\ Len(log) = 2
    /\ log[1].outcome = "fetch_failed"
    /\ log[2].outcome = "updated"

----------------------------------------------------------------------------
\* Where an error returned by start comes from.
FromClientConstruction ==
    /\ result \in {Failed("OtherError", r) : r \in {"InvalidApiKey", "ReqwestError"}}
    /\ wan_ip = NoWan
    /\ account_domains = NoDomains
    /\ calls = <<>>

FromWanResolution ==
    \/ wan_ip.kind = "Err" /\ result = Failed("TestFailedToQueryWanIp", wan_ip.err)
    \/ wan_ip.kind = "Ok" /\ result = CgNatError

FromListing == account_domains.kind = "Err" /\ result = account_domains

\* C13: an error returned by start comes from the client construction, from
\* the WAN lookup (the CGNAT check included) or from list_all_domains; once a
\* cycle is past Listing it returns no error, and a run that ends in such a
\* cycle ends Ok, whatever was unknown, missing or failed in it.
C13_ErrorsOnlyBeforeReconciling ==
    /\ result.kind = "Err" =>
          (FromClientConstruction \/ FromWanResolution \/ FromListing)
    /\ Correlated => result.kind # "Err"
    /\ (Correlated /\ pc = "done") => result = Returned("Ok")

\* C13 witness: a run ended Ok after a cycle in which one FQDN had no domain
\* and the update of another failed.
C13_Witness ==
    /\ pc = "done"
    /\ result = Returned("Ok")
    /\ Has(log, "unknown")
    /\ Has(log, "update_failed")

----------------------------------------------------------------------------
\* The modes the specification calls one-shot, and the repeating mode.
OneShot == ~args.apply \/ ~args.update_interval.some \/ args.update_interval.v = 0

Repeating == args.apply /\ args.update_interval.some /\ args.update_interval.v > 0

\* C14: without --apply, or with --apply and no interval, or with interval 0,
\* the first cycle that gets through Reporting/Updating ends start: start has
\* returned Ok, no cycle follows one that got past Listing, and the only sleep
\* there can be is the 10 second back-off after a failed lookup or listing.
C14_OneShotStopsAfterOneCycle ==
    OneShot =>
        /\ CycleComplete => (pc = "done" /\ result = Returned("Ok") /\ sleep_secs = 0)
        /\ ~last.some
        /\ ~repeat.same
        /\ pc = "sleep" => (~Correlated /\ sleep_secs = 10)

\* C14 witness: an applying run with interval 0 returned Ok after writing a
\* record.
C14_Witness ==
    /\ args.apply
    /\ args.update_interval = Interval(0)
    /\ pc = "done"
    /\ result = Returned("Ok")
    /\ Has(log, "updated")

\* What a repeating run does at the end of each cycle and after it: it never
\* returns Ok, it sleeps interval minutes, and the next thing it does is a new
\* WAN lookup.
RepeatingKeepsCycling ==
    /\ [](Repeating =>
             /\ result.kind # "Ok"
             /\ CycleComplete =>
                   /\ pc = "sleep"
                   /\ sleep_secs = 60 * args.update_interval.v
                   /\ result = Running)
    /\ [][(Repeating /\ CycleComplete) =>
             (pc' = "query_wan_ip" /\ wan_ip' = NoWan /\ calls' = <<>>)]_vars

UnauthorizedOnListing == Failed("TestFailedDOKeyValidation", "Unauthorized")

\* C15 as claimed: with --apply and a positive interval start never returns
\* Ok, sleeps interval minutes after every complete cycle and then starts a new
\* cycle with a new WAN lookup, and ends only with the CGNAT error or with
\* Unauthorized on listing.
C15_RepeatingEndsOnlyOnCgnatOrUnauthorized ==
    /\ RepeatingKeepsCycling
    /\ [](Repeating /\ pc = "done" => result \in {CgNatError, UnauthorizedOnListing})

\* C15 amended: the same, where start may also end with the error of a failed
\* client construction, before the first cycle.
C15_RepeatingEndsOnlyOnFatalError ==
    /\ RepeatingKeepsCycling
    /\ [](Repeating /\ pc = "done" =>
             \/ result \in {CgNatError, UnauthorizedOnListing}
             \/ FromClientConstruction)

\* C15 witness: a repeating run sleeps 60 seconds after a complete cycle that
\* followed an earlier complete cycle.
C15_Witness ==
    /\ Repeating
    /\ CycleComplete
    /\ pc = "sleep"
    /\ sleep_secs = 60
    /\ repeat.same

----------------------------------------------------------------------------
\* The endpoints api_urls.txt configures: its non-empty lines, in order.
FileEndpoints == non_empty(split(api_file.contents))

\* One of the non-empty lines of the endpoint file is not a well-formed URL.
Malformed ==
    /\ api_file.exists
    /\ \E i \in 1..Len(FileEndpoints) : ~url_parse_ok(FileEndpoints[i])

\* C16 as claimed: with a malformed endpoint file that could be read, the
\* WAN lookup fails with UrlParse and no endpoint is queried, and start ends
\* with that error without a sleep or a retry, with or without --apply.
C16_MalformedListIsFatal ==
    Malformed =>
        /\ queried = <<>>
        /\ pc # "get"
        /\ (wan_ip # NoWan /\ wan_ip # WanErr("Io")) =>
              /\ wan_ip = WanErr("UrlParse")
              /\ pc = "done"
              /\ result = Failed("TestFailedToQueryWanIp", "UrlParse")
              /\ sleep_secs = 0

\* The endpoint answered with a body that reads as an address: the
\* specification's "successfully parsed address".
GaveAddress(resp) ==
    /\ resp.net = "Ok"
    /\ resp.read
    /\ \E ip \in WanIps : to_string(ip) = to_lowercase(resp.body)

\* C18: query_wan_ip asks the configured endpoints in the order of the file:
\* endpoint i is asked only when every endpoint before it gave no address, no
\* endpoint is asked after one gave an address, the address returned is the
\* one the last endpoint asked gave, and the lookup fails with QueryFailed
\* only when every endpoint was asked and none gave an address.
C18_EndpointsInOrderUntilFirstSuccess ==
    /\ Len(queried) <= Len(FileEndpoints)
    /\ \A i \in 1..Len(queried) :
          /\ queried[i].url = FileEndpoints[i]
          /\ i < Len(queried) => ~GaveAddress(queried[i].resp)
    /\ pc = "get" =>
          /\ api_idx = Len(queried) + 1
          /\ \A i \in 1..Len(queried) : ~GaveAddress(queried[i].resp)
    /\ wan_ip.kind = "Ok" =>
          /\ queried # <<>>
          /\ GaveAddress(queried[Len(queried)].resp)
          /\ to_string(wan_ip.ip) = to_lowercase(queried[Len(queried)].resp.body)
    /\ (queried # <<>> /\ GaveAddress(queried[Len(queried)].resp)) => wan_ip.kind = "Ok"
    /\ wan_ip = WanErr("QueryFailed") =>
          /\ Len(queried) = Len(FileEndpoints)
          /\ \A i \in 1..Len(queried) : ~GaveAddress(queried[i].resp)

\* C18 witness: the second endpoint of a file whose first line is not the
\* first default gave the address after the first endpoint failed.
C18_Witness ==
    /\ wan_ip.kind = "Ok"
    /\ Len(queried) = 2
    /\ queried[1].url = "https://ip.example"
    /\ queried[2].url = DEFAULT_APIS[1]

\* An endpoint failed, as the specification words it: a network error, a
\* status that is not 2xx, or a body that does not parse as an address.
EndpointFailed(resp) ==
    \/ resp.net = "Err"
    \/ resp.status \notin 200..299
    \/ ~GaveAddress(resp)

\* C19 as claimed: the answer of an endpoint that failed is never returned
\* as the WAN address, and the next endpoint, if there is one, is tried.
C19_FailedEndpointNeverReturned ==
    \A i \in 1..Len(queried) :
        EndpointFailed(queried[i].resp) =>
            /\ ~(wan_ip.kind = "Ok" /\ i = Len(queried))
            /\ i < Len(FileEndpoints) =>
                  (Len(queried) > i \/ (pc = "get" /\ api_idx = i + 1))

----------------------------------------------------------------------------
\* The error a status code stands for, and "" for a status that has none.
ErrorOfStatus(status) ==
    CASE status = 401 -> "Unauthorized"
      [] status = 404 -> "NotFound"
      [] status = 429 -> "RateLimited"
      [] status = 500 -> "ServerError"
      [] OTHER -> ""

Answered == pc = "returned" /\ response # NoResponse

\* C17 as claimed: a client call sends one request and its result follows
\* from the status code alone, whatever the body: 200 gives the decoded
\* payload, 401, 404, 429 and 500 give their errors, and any other status gives
\* UnexpectedStatus with the code.
C17_ClassifiedByStatusAlone ==
    /\ pc = "returned" => sent = 1
    /\ Answered =>
          IF response.status = 200
          THEN decodes_as(response.body, request.expects) => client_result.kind = "Ok"
          ELSE IF ErrorOfStatus(response.status) # ""
          THEN client_result.kind = ErrorOfStatus(response.status)
          ELSE client_result = [kind |-> "UnexpectedStatus", code |-> response.status]

\* C17 amended: the same, where a 401, 404, 429 or 500 response gives its
\* error only if its body decodes as an error message, and the decoding error
\* otherwise, as a 200 response does whose body is not the payload.
C17_ClassifiedByStatusAndDecodableBody ==
    /\ pc = "returned" => sent = 1
    /\ sent <= 1
    /\ Answered =>
          IF response.status = 200
          THEN client_result.kind =
                  (IF decodes_as(response.body, request.expects)
                   THEN "Ok" ELSE "ReqwestError")
          ELSE IF ErrorOfStatus(response.status) # ""
          THEN client_result.kind =
                  (IF decodes_as(response.body, "message")
                   THEN ErrorOfStatus(response.status) ELSE "ReqwestError")
          ELSE client_result = [kind |-> "UnexpectedStatus", code |-> response.status]

\* C17 witness: update_record was answered 401 with a body that is no JSON
\* and returned the decoding error after one request.
C17_Witness ==
    /\ Answered
    /\ request.op = "update_record"
    /\ response.status = 401
    /\ ~response.body.json
    /\ client_result.kind = "ReqwestError"
    /\ sent = 1

----------------------------------------------------------------------------
\* The record-list request of a matched domain was sent before call i.
RecordsRequestedBefore(d, i) ==
    \E j \in 1..(i - 1) :
        calls[j].op = "query_domain_records" /\ calls[j].domain = d

\* C20 as claimed: when an update_record call is issued, the record-list
\* request of every matched domain of the cycle has already been sent.
C20_RecordRequestsSentBeforeAnyUpdate ==
    \A i \in 1..Len(calls) :
        calls[i].op = "update_record" =>
            \A d \in DOMAIN map : RecordsRequestedBefore(d, i)

----------------------------------------------------------------------------
\* The requested FQDNs that are in a list, in the order they were given.
InInputOrder(members) == SelectSeq(args.domains, LAMBDA f : f \in Range(members))

\* The FQDNs of the log lines of one domain (NoDomain: of the unknown
\* lines), in the order they were logged.
LoggedFor(d) ==
    LET lines == SelectSeq(log, LAMBDA l : l.domain = d)
    IN  [i \in 1..Len(lines) |-> lines[i].fqdn]

IsPrefix(a, b) == Len(a) <= Len(b) /\ a = SubSeq(b, 1, Len(a))

\* C21: the unknown list and each domain's group hold their FQDNs in the
\* order of args.domains, and the lines the loop logs for one domain (reports,
\* updates, missing records, failed fetches) and for the unknown FQDNs follow
\* that order, up to where the cycle has come.
C21_InputOrderPreserved ==
    Correlated =>
        /\ unknown_domains = InInputOrder(unknown_domains)
        /\ \A d \in DOMAIN map :
              /\ map[d] = InInputOrder(map[d])
              /\ IsPrefix(LoggedFor(d), map[d])
              /\ CycleComplete => LoggedFor(d) = map[d]
        /\ IsPrefix(LoggedFor(NoDomain), unknown_domains)
        /\ CycleComplete => LoggedFor(NoDomain) = unknown_domains

\* C21 witness: a complete cycle processed two different FQDNs of one domain
\* from the records fetched for it.
C21_Witness ==
    /\ CycleComplete
    /\ \E d \in DOMAIN map :
          /\ Len(map[d]) = 2
          /\ map[d][1] # map[d][2]
          /\ ~Has(log, "fetch_failed")
          /\ LoggedFor(d) = map[d]

----------------------------------------------------------------------------
\* C22 as claimed: within one cycle no two update_record calls are issued
\* for the same record id, whatever the list of requested FQDNs.
C22_OneUpdatePerRecord ==
    \A i, j \in 1..Len(UpdateCalls) :
        i # j => UpdateCalls[i].id # UpdateCalls[j].id

----------------------------------------------------------------------------
\* The domains whose records this cycle has asked for, in order.
RecordCalls == SelectSeq(calls, LAMBDA c : c.op = "query_domain_records")

Fetched == {RecordCalls[i].domain : i \in 1..Len(RecordCalls)}

\* C23: in a cycle past Listing the keys of the map are account domains with
\* a non-empty group; records are asked for once for each key and for no other
\* domain: the futures left and the fetches made are disjoint, are together
\* the keys of the map, and at the end of the cycle every key was fetched
\* once; the domain being processed is a key and the FQDN being processed is
\* in its group.
C23_RecordsFetchedOncePerMatchedDomain ==
    Correlated =>
        /\ DOMAIN map \subseteq Range(account_domains.v)
        /\ \A d \in DOMAIN map : map[d] # <<>>
        /\ \A i, j \in 1..Len(RecordCalls) :
              i # j => RecordCalls[i].domain # RecordCalls[j].domain
        /\ Fetched \cap domain_records_futures = {}
        /\ Fetched \cup domain_records_futures = DOMAIN map
        /\ CycleComplete => Fetched = DOMAIN map
        /\ pc = "process" =>
              /\ domain \in DOMAIN map
              /\ arg_idx \in 1..Len(map[domain])
        /\ \A i \in 1..Len(log) :
              log[i].outcome # "unknown" =>
                  (log[i].domain \in Fetched /\ log[i].fqdn \in Range(map[log[i].domain]))

\* C23 witness: a complete cycle on an account of two domains, only one of
\* which had a requested FQDN: its records were asked for once, and the fetch
\* failed.
C23_Witness ==
    /\ CycleComplete
    /\ Len(account_domains.v) = 2
    /\ Cardinality(DOMAIN map) = 1
    /\ Cardinality(Fetched) = 1
    /\ Has(log, "fetch_failed")

====
